---- MODULE Spec2Model ----
(***************************************************************************)
(* Model of src/plonk/circuit/bigint/bigint.rs: the limb splitting helpers,*)
(* the Limb bound tracker and the gadgets simple_add, simple_sub,          *)
(* simple_mul and simple_div, with the constraint system they write to.    *)
(*                                                                         *)
(* All widths are scaled by the same factor so that the integers stay      *)
(* inside TLC's range: a 64-bit word is WordBits bits, a 128-bit column is *)
(* 2*WordBits bits, a 256-bit operand is 4*WordBits bits.  The two 254-bit *)
(* moduli keep their place just below a quarter of the 4-word range.       *)
(***************************************************************************)
EXTENDS Integers, Sequences, FiniteSets, TLC

VARIABLES op, args, ret, cs, limb

vars == <<op, args, ret, cs, limb>>

----------------------------------------------------------------------------
(* Sizes *)

\* width of one word: stands for the 64 of `<< 64u32`
WordBits == 2

\* number of words of an operand: [Num<E>; 4]
NUM_LIMBS == 4

\* number of words of a dividend: [Num<E>; 8]
NUM_LIMBS_DIV == 8

\* the modulus simple_mul reduces by, a prime at 0.19 of the 4-word range
field_modulus == IF WordBits = 2 THEN 53 ELSE 787

\* the modulus of the native field E::Fr, the next smaller such prime
FrModulus == IF WordBits = 2 THEN 47 ELSE 773

\* an absent witness (Option::None)
None == 0 - 1

Pow2(n) == 2 ^ n

\* the word values operands are drawn from: both ends of the word range
LimbValues == {0, 1, Pow2(WordBits) - 2, Pow2(WordBits) - 1}

\* the word values of a second operand
LimbValuesB == {0, 1, Pow2(WordBits) - 1}

\* width of the range check of a column overflow: stands for the 75, which
\* like it covers the largest column sum of 8 products of two words
OverflowBits == WordBits + 4

----------------------------------------------------------------------------
(* Conversion layer *)

RECURSIVE bits(_)
\* BigUint::bits: the bit length
bits(v) == IF v = 0 THEN 0 ELSE 1 + bits(v \div 2)

\* PrimeField::into_repr: the canonical value as little-endian words
into_repr(el) == [i \in 1..NUM_LIMBS |-> (el \div Pow2(WordBits * (i - 1))) % Pow2(WordBits)]

RECURSIVE repr_fold(_, _)
repr_fold(repr, i) ==
    IF i = 0 THEN 0 ELSE repr_fold(repr, i - 1) + repr[i] * Pow2(WordBits * (i - 1))

\* the words are folded most significant first: b <<= 64; b += limb
repr_to_biguint(repr) == repr_fold(repr, Len(repr))

fe_to_biguint(el) == repr_to_biguint(into_repr(el))

\* F::from_str(&value.to_str_radix(10)).unwrap(): the decimal digits are
\* accumulated in the field, so the value is reduced modulo the field
biguint_to_fe(value) == value % FrModulus

some_biguint_to_fe(value) == IF value = None THEN None ELSE value % FrModulus

----------------------------------------------------------------------------
(* The constraint system: a counter of variables and the log of what was   *)
(* emitted, in order.                                                     *)

EmptyCS == [nvars |-> 0, log |-> <<>>]

\* Num::Constant / Num::Variable
NumConstant(v) == [kind |-> "Constant", value |-> v, var |-> 0]
NumVariable(v, id) == [kind |-> "Variable", value |-> v, var |-> id]

\* AllocatedNum::alloc
cs_alloc(c, v) ==
    [nvars |-> c.nvars + 1,
     log |-> Append(c.log, [ev |-> "alloc", var |-> c.nvars + 1, val |-> v])]

\* AllocatedBit::alloc
cs_alloc_bit(c, v) ==
    [nvars |-> c.nvars + 1,
     log |-> Append(c.log, [ev |-> "alloc_bit", var |-> c.nvars + 1, val |-> v])]

\* enforce_using_single_column_table_for_shifted_variable_optimized
cs_range_check(c, var, val, width) ==
    [c EXCEPT !.log = Append(@, [ev |-> "range_check", var |-> var, val |-> val,
                                 width |-> width])]

\* LinearCombination::enforce_zero over terms <<variable, value, coefficient>>
cs_enforce_zero(c, terms) ==
    [c EXCEPT !.log = Append(@, [ev |-> "enforce_zero", terms |-> terms])]

\* Num::mul of two variables: the product is a new variable
cs_mul(c, x, y) ==
    [nvars |-> c.nvars + 1,
     log |-> Append(c.log, [ev |-> "mul", var |-> c.nvars + 1,
                            val |-> (x.value * y.value) % FrModulus,
                            x |-> x.var, y |-> y.var])]

\* the variable the last allocation returned
last_var(c) == c.nvars

Panic == [status |-> "panic", limbs |-> <<>>]
Ok(limbs) == [status |-> "ok", limbs |-> limbs]

----------------------------------------------------------------------------
(* Splitting layer *)

RECURSIVE split_loop(_, _, _)
\* for _ in 0..num_limbs { limbs.push(fe % modulus); fe >>= bits_per_limb }
split_loop(fe, bits_per_limb, num_limbs) ==
    IF num_limbs = 0 THEN <<>>
    ELSE <<fe % Pow2(bits_per_limb)>>
         \o split_loop(fe \div Pow2(bits_per_limb), bits_per_limb, num_limbs - 1)

Reverse(s) == [i \in 1..Len(s) |-> s[Len(s) + 1 - i]]

fixed_width_num_limbs(fe, bits_per_limb) ==
    (bits(fe) \div bits_per_limb)
    + (IF bits(fe) % bits_per_limb # 0 THEN 1 ELSE 0)

split_into_fixed_width_limbs_unreversed(fe, bits_per_limb) ==
    split_loop(fe, bits_per_limb, fixed_width_num_limbs(fe, bits_per_limb))

split_into_fixed_width_limbs(fe, bits_per_limb) ==
    Reverse(split_loop(fe, bits_per_limb, fixed_width_num_limbs(fe, bits_per_limb)))

\* the result, or Panic when the assertion fails
split_some_into_fixed_number_of_limbs(fe, bits_per_limb, num_limbs) ==
    IF fe = None THEN Ok([i \in 1..num_limbs |-> None])
    ELSE IF ~(bits(fe) <= bits_per_limb * num_limbs) THEN Panic
    ELSE Ok(split_loop(fe, bits_per_limb, num_limbs))

split_into_fixed_number_of_limbs(fe, bits_per_limb, num_limbs) ==
    Ok(split_loop(fe, bits_per_limb, num_limbs))

RECURSIVE sum_widths(_)
\* bits_per_limb.iter().sum()
sum_widths(widths) ==
    IF Len(widths) = 0 THEN 0 ELSE Head(widths) + sum_widths(Tail(widths))

RECURSIVE split_widths_loop_unshifted(_, _)
split_widths_loop_unshifted(fe, widths) ==
    IF Len(widths) = 0 THEN <<>>
    ELSE <<fe % Pow2(Head(widths))>> \o split_widths_loop_unshifted(fe, Tail(widths))

RECURSIVE split_widths_loop(_, _)
\* for &width in bits_per_limb { limbs.push(fe % (1 << width)); fe >>= width }
split_widths_loop(fe, widths) ==
    IF Len(widths) = 0 THEN <<>>
    ELSE <<fe % Pow2(Head(widths))>>
         \o split_widths_loop(fe \div Pow2(Head(widths)), Tail(widths))

split_some_into_limbs_of_variable_width_shapeless(fe, bits_per_limb) ==
    IF fe = None THEN Ok(<<>>)
    ELSE IF ~(bits(fe) <= sum_widths(bits_per_limb)) THEN Panic
    ELSE Ok(split_widths_loop(fe, bits_per_limb))

\* the result, or Panic when the assertion fails
split_some_into_limbs_of_variable_width(fe, bits_per_limb) ==
    IF fe = None THEN Ok([i \in 1..Len(bits_per_limb) |-> None])
    ELSE IF ~(bits(fe) <= sum_widths(bits_per_limb)) THEN Panic
    ELSE Ok(split_widths_loop(fe, bits_per_limb))

RECURSIVE recompose(_, _)
\* sum of limbs[i] * 2^(width * i), index 0 first
recompose(limbs, width) ==
    IF Len(limbs) = 0 THEN 0
    ELSE limbs[1] + Pow2(width) * recompose(Tail(limbs), width)

RECURSIVE slice_sizes_all_full(_, _)
slice_sizes_all_full(tmp, limb_width) ==
    IF tmp > limb_width
    THEN <<limb_width>> \o slice_sizes_all_full(tmp - limb_width, limb_width)
    ELSE <<limb_width>>

RECURSIVE slice_sizes(_, _)
\* loop { if tmp > limb_width { tmp -= limb_width; push(limb_width) }
\*        else { push(tmp); break } }
slice_sizes(tmp, limb_width) ==
    IF tmp > limb_width THEN <<limb_width>> \o slice_sizes(tmp - limb_width, limb_width)
    ELSE <<tmp>>

\* slice_into_limbs_of_max_size: [limb_values, limb_sizes]; every value is
\* taken modulo 1 << limb_width and the rest shifted by limb_width
slice_into_limbs_of_max_size(value, max_width, limb_width) ==
    [limb_values |->
        IF value = None THEN [i \in 1..Len(slice_sizes(max_width, limb_width)) |-> None]
        ELSE split_loop(value, limb_width, Len(slice_sizes(max_width, limb_width))),
     limb_sizes |-> slice_sizes(max_width, limb_width)]

\* repr.as_ref().iter().map(u64_to_fe).take(num_slices): the words of the
\* representation, at most num_slices of them
slices_of_words(repr, num_slices) ==
    [i \in 1..(IF num_slices < Len(repr) THEN num_slices ELSE Len(repr)) |-> repr[i] % FrModulus]

\* split_into_slices: below 64 bits the lowest word is masked and the
\* representation shifted, from 64 bits on the words themselves are taken
split_into_slices(el, slice_width, num_slices) ==
    IF ~(bits(el) <= slice_width * num_slices) THEN Panic
    ELSE IF slice_width < WordBits
         THEN Ok(split_loop(el, slice_width, num_slices))
         ELSE Ok(slices_of_words(into_repr(el), num_slices))

----------------------------------------------------------------------------
(* Reading the operands: the loop at the head of every gadget *)

read_limb_skipping_zero(x, i, st) ==
    IF ~st.ok THEN st
    ELSE IF x.kind = "Constant" \/ x.value = 0
         THEN [st EXCEPT !.big = @ + fe_to_biguint(x.value) * Pow2(WordBits * i)]
         ELSE [cs |-> cs_range_check(st.cs, x.var, x.value, WordBits), ok |-> TRUE,
               big |-> st.big + fe_to_biguint(x.value) * Pow2(WordBits * i)]

\* one arm of the match: st = [cs, big, ok]; a Variable is range checked to
\* a word and its witness unwrapped; big += v << 64 * i
read_limb(x, i, st) ==
    IF ~st.ok THEN st
    ELSE IF x.kind = "Constant"
         THEN [st EXCEPT !.big = @ + fe_to_biguint(x.value) * Pow2(WordBits * i)]
         ELSE LET c1 == cs_range_check(st.cs, x.var, x.value, WordBits)
              IN IF x.value = None
                 THEN [st EXCEPT !.cs = c1, !.ok = FALSE]
                 ELSE [cs |-> c1, ok |-> TRUE,
                       big |-> st.big + fe_to_biguint(x.value) * Pow2(WordBits * i)]

RECURSIVE read_operand(_, _, _)
\* for i in 0..n over one operand (simple_div)
read_operand(x, i, st) ==
    IF i > Len(x) THEN st
    ELSE read_operand(x, i + 1, read_limb(x[i], i - 1, st))

RECURSIVE read_operands(_, _, _, _)
\* for i in 0..4 over both operands, a[i] before b[i];
\* st = [cs, big_a, big_b, ok]
read_operands(a, b, i, st) ==
    IF i > NUM_LIMBS THEN st
    ELSE LET sa == read_limb(a[i], i - 1, [cs |-> st.cs, big |-> st.big_a, ok |-> st.ok])
             sb == read_limb(b[i], i - 1, [cs |-> sa.cs, big |-> st.big_b, ok |-> sa.ok])
         IN read_operands(a, b, i + 1,
                [cs |-> sb.cs, big_a |-> sa.big, big_b |-> sb.big, ok |-> sb.ok])

\* compute_shifts()[i]: 2^i as a field element
shifts(i) == Pow2(i) % FrModulus

\* E::Fr::one() negated
minus_one == FrModulus - 1

\* a field element negated
fe_negate(x) == (FrModulus - x) % FrModulus

\* a term of a linear combination: variable (0 for a constant), its value
\* and its coefficient
Term(var, val, coeff) == [var |-> var, val |-> val, coeff |-> coeff]

----------------------------------------------------------------------------
(* simple_add *)

add_new_limb_without_carry(l, r, pre_of) == l + r

\* new_limb = l + r + pre_of
add_new_limb(l, r, pre_of) == l + r + pre_of

\* of = ((l % modulus) + (r % modulus)) >> 64
add_of(l, r, pre_of) == ((l % Pow2(WordBits)) + (r % Pow2(WordBits))) \div Pow2(WordBits)

add_limbs_for_c_unreduced(new_limb, of) == new_limb

\* the value pushed to c_in_limbs
add_limbs_for_c(new_limb, of) ==
    IF of # 0 THEN new_limb - of * Pow2(WordBits) ELSE new_limb

RECURSIVE add_loop(_, _, _, _)
\* for (l, r) in a_in_limbs.zip(b_in_limbs);
\* st = [cs, pre_of, alloc_pre_of, c_in_limbs, ok]
add_loop(al, bl, i, st) ==
    IF ~st.ok \/ i > Len(al) THEN st
    ELSE LET l == al[i]
             r == bl[i]
             c1 == cs_alloc(st.cs, some_biguint_to_fe(l))
             allocated_a == last_var(c1)
             c2 == cs_alloc(c1, some_biguint_to_fe(r))
             allocated_b == last_var(c2)
             new_limb == add_new_limb(l, r, st.pre_of)
             of == add_of(l, r, st.pre_of)
             intermediate_of_witness == IF of # 0 THEN 1 ELSE 0
             c3 == cs_alloc_bit(c2, intermediate_of_witness)
             alloc_of == Term(last_var(c3), intermediate_of_witness, 1)
             limbs_for_c == add_limbs_for_c(new_limb, of)
             fe_c == some_biguint_to_fe(limbs_for_c)
             c4 == cs_alloc(c3, fe_c)
             allocated_c == last_var(c4)
             c5 == cs_range_check(c4, allocated_c, fe_c, WordBits)
             lc == << Term(allocated_a, some_biguint_to_fe(l), 1),
                      Term(allocated_b, some_biguint_to_fe(r), 1),
                      [st.alloc_pre_of EXCEPT !.coeff = 1],
                      Term(allocated_c, fe_c, minus_one),
                      [alloc_of EXCEPT !.coeff = fe_negate(shifts(WordBits))] >>
             c6 == cs_enforce_zero(c5, lc)
         IN add_loop(al, bl, i + 1,
                [cs |-> c6, pre_of |-> of, alloc_pre_of |-> alloc_of,
                 c_in_limbs |-> Append(st.c_in_limbs, limbs_for_c), ok |-> TRUE])

RECURSIVE alloc_result(_, _, _, _)
\* for i in 0..c_in_limbs.len(): result.push(Num::Variable(alloc(...)));
\* st = [cs, result]
alloc_result(limbs, i, c, result) ==
    IF i > Len(limbs) THEN [cs |-> c, result |-> result]
    ELSE LET c1 == cs_alloc(c, some_biguint_to_fe(limbs[i]))
         IN alloc_result(limbs, i + 1, c1,
                Append(result, NumVariable(some_biguint_to_fe(limbs[i]), last_var(c1))))

\* Boolean::zero(): the constant false
BooleanZero == Term(0, 0, 1)

\* [ret, cs] of simple_add(cs, a, b)
simple_add(c0, a, b) ==
    LET rd == read_operands(a, b, 1, [cs |-> c0, big_a |-> 0, big_b |-> 0, ok |-> TRUE])
        a_in_limbs == split_some_into_fixed_number_of_limbs(rd.big_a, WordBits, NUM_LIMBS)
        b_in_limbs == split_some_into_fixed_number_of_limbs(rd.big_b, WordBits, NUM_LIMBS)
    IN IF ~rd.ok \/ a_in_limbs.status # "ok" \/ b_in_limbs.status # "ok"
       THEN [ret |-> Panic, cs |-> rd.cs]
       ELSE LET lp == add_loop(a_in_limbs.limbs, b_in_limbs.limbs, 1,
                         [cs |-> rd.cs, pre_of |-> 0, alloc_pre_of |-> BooleanZero,
                          c_in_limbs |-> <<>>, ok |-> TRUE])
                rs == alloc_result(lp.c_in_limbs, 1, lp.cs, <<>>)
            IN [ret |-> Ok(rs.result), cs |-> rs.cs]

----------------------------------------------------------------------------
(* simple_sub *)

\* l - pre_borrow < r, on BigUint: the subtraction panics below zero
sub_borrows(l, r, pre_borrow) == l - pre_borrow < r

\* new_limb of either branch
sub_new_limb(l, r, pre_borrow) ==
    IF sub_borrows(l, r, pre_borrow)
    THEN l + Pow2(WordBits) - r - pre_borrow
    ELSE l - r - pre_borrow

RECURSIVE sub_loop(_, _, _, _)
\* for (l, r) in a_in_limbs.zip(b_in_limbs);
\* st = [cs, pre_borrow, alloc_pre_borrow, c_in_limbs, ok]
sub_loop(al, bl, i, st) ==
    IF ~st.ok \/ i > Len(al) THEN st
    ELSE LET l == al[i]
             r == bl[i]
             c1 == cs_alloc(st.cs, some_biguint_to_fe(l))
             allocated_a == last_var(c1)
             c2 == cs_alloc(c1, some_biguint_to_fe(r))
             allocated_b == last_var(c2)
         IN IF l - st.pre_borrow < 0
            THEN [st EXCEPT !.cs = c2, !.ok = FALSE]
            ELSE
            LET borrow == IF sub_borrows(l, r, st.pre_borrow) THEN 1 ELSE 0
                new_limb == sub_new_limb(l, r, st.pre_borrow)
                c3 == cs_alloc_bit(c2, borrow)
                alloc_borrow == Term(last_var(c3), borrow, 1)
                fe_c == some_biguint_to_fe(new_limb)
                c4 == cs_alloc(c3, fe_c)
                allocated_c == last_var(c4)
                c5 == cs_range_check(c4, allocated_c, fe_c, WordBits)
                lc == << Term(allocated_a, some_biguint_to_fe(l), 1),
                         Term(allocated_b, some_biguint_to_fe(r), minus_one),
                         [st.alloc_pre_borrow EXCEPT !.coeff = minus_one],
                         Term(allocated_c, fe_c, minus_one),
                         [alloc_borrow EXCEPT !.coeff = shifts(WordBits)] >>
                c6 == cs_enforce_zero(c5, lc)
            IN sub_loop(al, bl, i + 1,
                   [cs |-> c6, pre_borrow |-> borrow, alloc_pre_borrow |-> alloc_borrow,
                    c_in_limbs |-> Append(st.c_in_limbs, new_limb), ok |-> TRUE])

\* [ret, cs] of simple_sub(cs, a, b)
simple_sub(c0, a, b) ==
    LET rd == read_operands(a, b, 1, [cs |-> c0, big_a |-> 0, big_b |-> 0, ok |-> TRUE])
        a_in_limbs == split_some_into_fixed_number_of_limbs(rd.big_a, WordBits, NUM_LIMBS)
        b_in_limbs == split_some_into_fixed_number_of_limbs(rd.big_b, WordBits, NUM_LIMBS)
    IN IF ~rd.ok \/ a_in_limbs.status # "ok" \/ b_in_limbs.status # "ok"
       THEN [ret |-> Panic, cs |-> rd.cs]
       ELSE LET lp == sub_loop(a_in_limbs.limbs, b_in_limbs.limbs, 1,
                         [cs |-> rd.cs, pre_borrow |-> 0, alloc_pre_borrow |-> BooleanZero,
                          c_in_limbs |-> <<>>, ok |-> TRUE])
            IN IF ~lp.ok THEN [ret |-> Panic, cs |-> lp.cs]
               ELSE LET rs == alloc_result(lp.c_in_limbs, 1, lp.cs, <<>>)
                    IN [ret |-> Ok(rs.result), cs |-> rs.cs]

----------------------------------------------------------------------------
(* The column chain of simple_mul and simple_div *)

\* Fr::inverse
fe_inverse(x) == CHOOSE y \in 0..(FrModulus - 1) : (x * y) % FrModulus = 1

\* shifts[64]
word_shift == shifts(WordBits)

\* shifts[128].inverse().unwrap()
two_words_shift_right == fe_inverse(shifts(2 * WordBits))

\* Num::zero(): the constant 0
NumZero == NumConstant(0)

\* of = (mul_term % modulus) >> 128, with modulus = 1 << 128
column_of(mul_term) == (mul_term % Pow2(2 * WordBits)) \div Pow2(2 * WordBits)

\* limbs_for_c = mul_term - of * shift
column_limb(mul_term, of) == mul_term - of * Pow2(2 * WordBits)

RECURSIVE products_fresh(_, _, _, _, _, _, _, _)
\* for i in 0..sum+1 { j = sum - i; if i < n && j < n { ... } } where both
\* limbs are allocated anew and multiplied; st = [cs, lc, mul_term, ok],
\* ok turning false where `?` returns the error of Num::mul
products_fresh(xl, yl, sum, i, n, coeff, weight, st) ==
    IF ~st.ok \/ i > sum THEN st
    ELSE LET j == sum - i
         IN IF ~(i < n /\ j < n)
            THEN products_fresh(xl, yl, sum, i + 1, n, coeff, weight, st)
            ELSE LET fe_a == some_biguint_to_fe(xl[i + 1])
                     c1 == cs_alloc(st.cs, fe_a)
                     chunk_a_num == NumVariable(fe_a, last_var(c1))
                     fe_b == some_biguint_to_fe(yl[j + 1])
                     c2 == cs_alloc(c1, fe_b)
                     chunk_b_num == NumVariable(fe_b, last_var(c2))
                     c3 == cs_mul(c2, chunk_a_num, chunk_b_num)
                     t == Term(last_var(c3), (fe_a * fe_b) % FrModulus, coeff)
                 IN products_fresh(xl, yl, sum, i + 1, n, coeff, weight,
                        [cs |-> c3, lc |-> Append(st.lc, t), ok |-> TRUE,
                         mul_term |-> st.mul_term + xl[i + 1] * yl[j + 1] * weight])

RECURSIVE products_of(_, _, _, _, _, _, _, _, _)
\* the same loop over variables allocated before: the gate multiplies
\* xnum[i] by ynum[j], the witness adds wx[i] * wy[j]
products_of(xnum, ynum, wx, wy, sum, i, coeff, weight, st) ==
    IF ~st.ok \/ i > sum THEN st
    ELSE LET j == sum - i
         IN IF ~(i < NUM_LIMBS /\ j < NUM_LIMBS)
            THEN products_of(xnum, ynum, wx, wy, sum, i + 1, coeff, weight, st)
            ELSE LET c1 == cs_mul(st.cs, xnum[i + 1], ynum[j + 1])
                     t == Term(last_var(c1),
                               (xnum[i + 1].value * ynum[j + 1].value) % FrModulus, coeff)
                 IN products_of(xnum, ynum, wx, wy, sum, i + 1, coeff, weight,
                        [cs |-> c1, lc |-> Append(st.lc, t), ok |-> TRUE,
                         mul_term |-> st.mul_term + wx[i + 1] * wy[j + 1] * weight])

num_term(x, coeff) == Term(x.var, x.value, coeff)

\* the head of a column: the carry of the column before is the first
\* term; st = [cs, pre_of, input_carry, c_in_limbs, ok]
column_open(st) ==
    [cs |-> st.cs, lc |-> <<num_term(st.input_carry, 1)>>, mul_term |-> 0, ok |-> TRUE]

\* the tail of a column: the overflow and the limb are allocated and range
\* checked, the identity is enforced; st = [cs, lc, mul_term, ok];
\* gives [cs, of, allocated_of, limb, ok]
column_close(st) ==
    LET of == column_of(st.mul_term)
        fe_of == some_biguint_to_fe(of)
        c1 == cs_alloc(st.cs, fe_of)
        allocated_of == NumVariable(fe_of, last_var(c1))
        c2 == cs_range_check(c1, allocated_of.var, fe_of, OverflowBits)
        lc1 == Append(st.lc, num_term(allocated_of, two_words_shift_right))
        limbs_for_c == column_limb(st.mul_term, of)
        fe_c == some_biguint_to_fe(limbs_for_c)
        c3 == cs_alloc(c2, fe_c)
        lc2 == Append(lc1, Term(last_var(c3), fe_c, minus_one))
        c4 == cs_range_check(c3, last_var(c3), fe_c, 2 * WordBits)
        c5 == cs_enforce_zero(c4, lc2)
    IN [cs |-> c5, of |-> of, allocated_of |-> allocated_of, limb |-> limbs_for_c,
        ok |-> st.ok]

\* pre_of = of; input_carry = allocated_of; c_in_limbs.push(limbs_for_c):
\* the state the next column starts from, cl the closed column
column_next(st, cl) ==
    [cs |-> cl.cs, pre_of |-> cl.of, input_carry |-> cl.allocated_of,
     c_in_limbs |-> Append(st.c_in_limbs, cl.limb), ok |-> cl.ok]

\* pre_of = 0, input_carry = Num::zero(), c_in_limbs empty, on the
\* constraint system of m
column_first(m) ==
    [cs |-> m.cs, pre_of |-> 0, input_carry |-> NumZero, c_in_limbs |-> <<>>,
     ok |-> m.ok]

\* the locals of a gadget that has failed: nothing after is executed
Failed(c) == [cs |-> c, ok |-> FALSE]

RECURSIVE alloc_all(_, _, _, _, _)
\* for i in 0..chunks.len(): allocate chunk i, range check it when
\* width > 0; gives [cs, nums]
alloc_all(chunks, i, width, c, nums) ==
    IF i > Len(chunks) THEN [cs |-> c, nums |-> nums]
    ELSE LET v == some_biguint_to_fe(chunks[i])
             c1 == cs_alloc(c, v)
             c2 == IF width > 0 THEN cs_range_check(c1, last_var(c1), v, width) ELSE c1
         IN alloc_all(chunks, i + 1, width, c2, Append(nums, NumVariable(v, last_var(c1))))

----------------------------------------------------------------------------
(* simple_mul *)

\* c = a * b and its four chunks allocated, then the limbs of a and b;
\* rd = [cs, big_a, big_b, ok]; gives [cs, a_in_limbs, b_in_limbs, ok]
mul_witness(rd) ==
    LET four_chunk == split_some_into_fixed_number_of_limbs(rd.big_a * rd.big_b,
                          2 * WordBits, NUM_LIMBS)
        a_in_limbs == split_some_into_fixed_number_of_limbs(rd.big_a, WordBits, NUM_LIMBS)
        b_in_limbs == split_some_into_fixed_number_of_limbs(rd.big_b, WordBits, NUM_LIMBS)
    IN IF ~rd.ok \/ four_chunk.status # "ok" THEN Failed(rd.cs)
       ELSE [cs |-> alloc_all(four_chunk.limbs, 1, 0, rd.cs, <<>>).cs,
             a_in_limbs |-> a_in_limbs.limbs, b_in_limbs |-> b_in_limbs.limbs,
             ok |-> a_in_limbs.status = "ok" /\ b_in_limbs.status = "ok"]

\* one column of the product chain: the products of weight 1, those of
\* weight 2^64, the carry of the column before
mul_product_column(al, bl, k, st) ==
    LET s2 == products_fresh(al, bl, 2 * k + 1, 0, NUM_LIMBS, word_shift, Pow2(WordBits),
                  products_fresh(al, bl, 2 * k, 0, NUM_LIMBS, 1, 1, column_open(st)))
    IN column_close([s2 EXCEPT !.mul_term = @ + st.pre_of])

RECURSIVE mul_product_loop(_, _, _, _)
\* the first for k in 0..4; st = [cs, pre_of, input_carry, c_in_limbs, ok]
mul_product_loop(al, bl, k, st) ==
    IF ~st.ok \/ k >= NUM_LIMBS THEN st
    ELSE mul_product_loop(al, bl, k + 1, column_next(st, mul_product_column(al, bl, k, st)))

\* number recomposed from the product chain, its four chunks allocated,
\* result_uint = number % field_modulus in two range-checked limbs;
\* p1 the state the product chain ends in
mul_number(p1) ==
    LET number == recompose(p1.c_in_limbs, 2 * WordBits)
        four_chunk == split_some_into_fixed_number_of_limbs(number, 2 * WordBits, NUM_LIMBS)
        n1 == alloc_all(four_chunk.limbs, 1, 0, p1.cs, <<>>)
        result_uint == number % field_modulus
        remainder_uint == split_some_into_fixed_number_of_limbs(result_uint, 2 * WordBits, 2)
        res == alloc_all(remainder_uint.limbs, 1, 2 * WordBits, n1.cs, <<>>)
    IN IF ~p1.ok \/ four_chunk.status # "ok" THEN Failed(p1.cs)
       ELSE IF remainder_uint.status # "ok" THEN Failed(n1.cs)
       ELSE [cs |-> res.cs, number |-> number, result |-> res.nums,
             remainder_uint |-> remainder_uint.limbs, ok |-> TRUE]

\* split_some_into_fixed_number_of_limbs(Some(quotient), 64, 4)
mul_quotient_chunk(quotient) ==
    split_some_into_fixed_number_of_limbs(quotient, WordBits, NUM_LIMBS)

\* quotient = number / field_modulus; the limbs of the modulus allocated,
\* those of the quotient allocated and range checked; m from mul_number
mul_quotient(m) ==
    LET quotient == m.number \div field_modulus
        field_chunk == split_some_into_fixed_number_of_limbs(field_modulus, WordBits,
                                                             NUM_LIMBS)
        fm == alloc_all(field_chunk.limbs, 1, 0, m.cs, <<>>)
        quotient_chunk == mul_quotient_chunk(quotient)
        qn == alloc_all(quotient_chunk.limbs, 1, WordBits, fm.cs, <<>>)
    IN IF ~m.ok \/ field_chunk.status # "ok" THEN Failed(m.cs)
       ELSE IF quotient_chunk.status # "ok" THEN Failed(fm.cs)
       ELSE [cs |-> qn.cs, result |-> m.result, remainder_uint |-> m.remainder_uint,
             field_mod_num |-> fm.nums, quotient_num |-> qn.nums,
             quotient_chunk |-> quotient_chunk.limbs, field_chunk |-> field_chunk.limbs,
             ok |-> TRUE]

\* if k < 2: the result limb k joins the combination, the remainder limb
\* and the carry join the witness; s2 = [cs, lc, mul_term, ok]
mul_add_remainder(result, remainder_uint, k, st, s2) ==
    IF k < 2
    THEN [s2 EXCEPT !.lc = Append(@, num_term(result[k + 1], 1)),
                    !.mul_term = @ + st.pre_of + remainder_uint[k + 1]]
    ELSE s2

\* one column of the reduction chain, q from mul_quotient
mul_reduce_column(q, k, st) ==
    column_close(mul_add_remainder(q.result, q.remainder_uint, k, st,
        products_of(q.field_mod_num, q.quotient_num, q.quotient_chunk, q.field_chunk,
            2 * k + 1, 0, shifts(WordBits), Pow2(WordBits),
            products_of(q.field_mod_num, q.quotient_num, q.quotient_chunk, q.field_chunk,
                2 * k, 0, 1, 1, column_open(st)))))

RECURSIVE mul_reduce_loop(_, _, _)
\* the second for k in 0..4, over quotient and modulus, with the
\* remainder in columns 0 and 1; st as above
mul_reduce_loop(q, k, st) ==
    IF ~st.ok \/ k >= NUM_LIMBS THEN st
    ELSE mul_reduce_loop(q, k + 1, column_next(st, mul_reduce_column(q, k, st)))

\* Ok(result), or the failure met on the way; q from mul_quotient, p2 the
\* state the reduction chain ends in
mul_return(q, p2) ==
    [ret |-> IF p2.ok THEN Ok(q.result) ELSE Panic, cs |-> p2.cs]

\* the reduction chain on the locals q
mul_reduce(q) == mul_return(q, mul_reduce_loop(q, 0, column_first(q)))

\* the product chain on the limbs of w, from mul_witness
mul_products(w) == mul_product_loop(w.a_in_limbs, w.b_in_limbs, 0, column_first(w))

\* [ret, cs] of simple_mul(cs, a, b)
simple_mul(c0, a, b) ==
    mul_reduce(mul_quotient(mul_number(mul_products(mul_witness(
        read_operands(a, b, 1, [cs |-> c0, big_a |-> 0, big_b |-> 0, ok |-> TRUE]))))))

----------------------------------------------------------------------------
(* simple_div *)

div_rem_zero_divisor_allowed(x, y) ==
    IF y = 0 THEN [status |-> "ok", quotient |-> 0, remainder |-> x]
    ELSE [status |-> "ok", quotient |-> x \div y, remainder |-> x % y]

div_rem_swapped(x, y) ==
    IF y = 0 THEN [status |-> "panic", quotient |-> 0, remainder |-> 0]
    ELSE [status |-> "ok", quotient |-> x % y, remainder |-> x \div y]

\* BigUint::div_rem: panics on a zero divisor
div_rem(x, y) ==
    IF y = 0 THEN [status |-> "panic", quotient |-> 0, remainder |-> 0]
    ELSE [status |-> "ok", quotient |-> x \div y, remainder |-> x % y]

\* split_some_into_fixed_number_of_limbs(Some(quotient), 64, 8)
div_quotient_in_limbs(quotient) ==
    split_some_into_fixed_number_of_limbs(quotient, WordBits, NUM_LIMBS_DIV)

\* the loop over a, then the loop over b: [cs, big_a, big_b, ok]
div_read(c0, a, b) ==
    LET ra == read_operand(a, 1, [cs |-> c0, big |-> 0, ok |-> TRUE])
        rb == read_operand(b, 1, [cs |-> ra.cs, big |-> 0, ok |-> ra.ok])
    IN [cs |-> rb.cs, big_a |-> ra.big, big_b |-> rb.big, ok |-> rb.ok]

\* (quotient, remainder) = a.div_rem(b); the quotient in 8 allocated
\* limbs, the divisor in 8 limbs, the remainder in 4; rd from div_read
div_witness(rd) ==
    LET qr == div_rem(rd.big_a, rd.big_b)
        quotient_in_limbs == div_quotient_in_limbs(qr.quotient)
        qn == alloc_all(quotient_in_limbs.limbs, 1, 0, rd.cs, <<>>)
        divisor_in_limbs == split_some_into_fixed_number_of_limbs(rd.big_b, WordBits,
                                                                  NUM_LIMBS_DIV)
        remainder == split_some_into_fixed_number_of_limbs(qr.remainder, WordBits, NUM_LIMBS)
    IN IF ~rd.ok \/ qr.status # "ok" \/ quotient_in_limbs.status # "ok" THEN Failed(rd.cs)
       ELSE IF divisor_in_limbs.status # "ok" \/ remainder.status # "ok" THEN Failed(qn.cs)
       ELSE [cs |-> qn.cs, quotient_in_limbs_num |-> qn.nums,
             quotient_in_limbs |-> quotient_in_limbs.limbs,
             divisor_in_limbs |-> divisor_in_limbs.limbs, remainder |-> remainder.limbs,
             ok |-> TRUE]

\* if k < 4: the remainder limb k is allocated and joins the combination,
\* its value and the carry join the witness; s2 = [cs, lc, mul_term, ok]
div_add_remainder(remainder, k, st, s2) ==
    IF k < 4
    THEN LET fe_remainder == some_biguint_to_fe(remainder[k + 1])
             c1 == cs_alloc(s2.cs, fe_remainder)
         IN [s2 EXCEPT !.cs = c1,
                       !.lc = Append(@, Term(last_var(c1), fe_remainder, 1)),
                       !.mul_term = @ + st.pre_of + remainder[k + 1]]
    ELSE s2

\* one column of the division chain, w from div_witness
div_column(w, k, st) ==
    column_close(div_add_remainder(w.remainder, k, st,
        products_fresh(w.quotient_in_limbs, w.divisor_in_limbs, 2 * k + 1, 0,
            NUM_LIMBS_DIV, word_shift, Pow2(WordBits),
            products_fresh(w.quotient_in_limbs, w.divisor_in_limbs, 2 * k, 0,
                NUM_LIMBS_DIV, 1, 1, column_open(st)))))

RECURSIVE div_loop(_, _, _)
\* for k in 0..8 over quotient and divisor, with the remainder in
\* columns 0 to 3; st = [cs, pre_of, input_carry, c_in_limbs, ok]
div_loop(w, k, st) ==
    IF ~st.ok \/ k >= NUM_LIMBS_DIV THEN st
    ELSE div_loop(w, k + 1, column_next(st, div_column(w, k, st)))

\* Ok(quotient_in_limbs_num), or the failure met on the way
div_return(w, lp) ==
    [ret |-> IF lp.ok THEN Ok(w.quotient_in_limbs_num) ELSE Panic, cs |-> lp.cs]

\* the division chain on the locals w
div_columns(w) == div_return(w, div_loop(w, 0, column_first(w)))

\* [ret, cs] of simple_div(cs, a, b)
simple_div(c0, a, b) == div_columns(div_witness(div_read(c0, a, b)))

----------------------------------------------------------------------------
(* more_simple_mul: product and reduction in one chain *)

\* shifts[64].inverse().unwrap()
words_shift_right == fe_inverse(shifts(WordBits))

\* shifts[128]
two_words_shift == shifts(2 * WordBits)

\* the limbs of a and b allocated as a_num and b_num, c = a * b and its
\* four chunks allocated; rd = [cs, big_a, big_b, ok]
more_operands(rd) ==
    LET a_in_limbs == split_some_into_fixed_number_of_limbs(rd.big_a, WordBits, NUM_LIMBS)
        an == alloc_all(a_in_limbs.limbs, 1, 0, rd.cs, <<>>)
        b_in_limbs == split_some_into_fixed_number_of_limbs(rd.big_b, WordBits, NUM_LIMBS)
        bn == alloc_all(b_in_limbs.limbs, 1, 0, an.cs, <<>>)
        four_chunk == split_some_into_fixed_number_of_limbs(rd.big_a * rd.big_b,
                          2 * WordBits, NUM_LIMBS)
    IN IF ~rd.ok \/ a_in_limbs.status # "ok" THEN Failed(rd.cs)
       ELSE IF b_in_limbs.status # "ok" THEN Failed(an.cs)
       ELSE IF four_chunk.status # "ok" THEN Failed(bn.cs)
       ELSE [cs |-> alloc_all(four_chunk.limbs, 1, 0, bn.cs, <<>>).cs,
             big_big_biguint_c |-> rd.big_a * rd.big_b,
             a_in_limbs |-> a_in_limbs.limbs, b_in_limbs |-> b_in_limbs.limbs,
             a_num |-> an.nums, b_num |-> bn.nums, ok |-> TRUE]

\* (quotient, remainder) = c.div_rem(field_modulus); the remainder in two
\* range-checked limbs, the modulus in four limbs, the quotient in four
\* range-checked limbs; w from more_operands
more_quotient(w) ==
    LET qr == div_rem(w.big_big_biguint_c, field_modulus)
        remainder_uint == split_some_into_fixed_number_of_limbs(qr.remainder, 2 * WordBits, 2)
        res == alloc_all(remainder_uint.limbs, 1, 2 * WordBits, w.cs, <<>>)
        field_chunk == split_some_into_fixed_number_of_limbs(field_modulus, WordBits,
                                                             NUM_LIMBS)
        fm == alloc_all(field_chunk.limbs, 1, 0, res.cs, <<>>)
        quotient_chunk == split_some_into_fixed_number_of_limbs(qr.quotient, WordBits,
                                                                NUM_LIMBS)
        qn == alloc_all(quotient_chunk.limbs, 1, WordBits, fm.cs, <<>>)
    IN IF ~w.ok \/ qr.status # "ok" \/ remainder_uint.status # "ok" THEN Failed(w.cs)
       ELSE IF field_chunk.status # "ok" THEN Failed(res.cs)
       ELSE IF quotient_chunk.status # "ok" THEN Failed(fm.cs)
       ELSE [cs |-> qn.cs, a_in_limbs |-> w.a_in_limbs, b_in_limbs |-> w.b_in_limbs,
             a_num |-> w.a_num, b_num |-> w.b_num, result |-> res.nums,
             field_mod_num |-> fm.nums, quotient_num |-> qn.nums,
             field_chunk |-> field_chunk.limbs, quotient_chunk |-> quotient_chunk.limbs,
             ok |-> TRUE]

RECURSIVE more_products(_, _, _, _, _, _, _)
\* for i in 0..sum+1 { j = sum - i; if i < 4 && j < 4 { ... } }: the gate
\* a_num[i] * b_num[j] joins with coeff, the gate field_mod_num[i] *
\* quotient_num[j] with coeff_another; st = [cs, lc, mul_term, mul_another, ok]
more_products(m, sum, i, coeff, coeff_another, weight, st) ==
    IF ~st.ok \/ i > sum THEN st
    ELSE IF ~(i < NUM_LIMBS /\ sum - i < NUM_LIMBS)
         THEN more_products(m, sum, i + 1, coeff, coeff_another, weight, st)
         ELSE LET j == sum - i
                  c1 == cs_mul(st.cs, m.a_num[i + 1], m.b_num[j + 1])
                  t1 == Term(last_var(c1),
                             (m.a_num[i + 1].value * m.b_num[j + 1].value) % FrModulus, coeff)
                  c2 == cs_mul(c1, m.field_mod_num[i + 1], m.quotient_num[j + 1])
                  t2 == Term(last_var(c2),
                             (m.field_mod_num[i + 1].value * m.quotient_num[j + 1].value)
                                 % FrModulus, coeff_another)
              IN more_products(m, sum, i + 1, coeff, coeff_another, weight,
                     [cs |-> c2, lc |-> st.lc \o <<t1, t2>>, ok |-> TRUE,
                      mul_term |-> st.mul_term
                                   + m.a_in_limbs[i + 1] * m.b_in_limbs[j + 1] * weight,
                      mul_another |-> st.mul_another
                                      + m.field_chunk[i + 1] * m.quotient_chunk[j + 1] * weight])

\* the head of a column: both carries of the column before are the first
\* terms; st = [cs, pre_of, input_carry, pre_of_another, input_carry_another, ok]
more_column_open(st) ==
    [cs |-> st.cs,
     lc |-> <<num_term(st.input_carry, 1), num_term(st.input_carry_another, minus_one)>>,
     mul_term |-> 0, mul_another |-> 0, ok |-> TRUE]

\* if k < 2 the result limb joins the combination; then both carries join
\* the witness totals
more_add_result(m, k, st, s2) ==
    [s2 EXCEPT !.lc = IF k < 2 THEN Append(@, num_term(m.result[k + 1], minus_one)) ELSE @,
               !.mul_term = @ + st.pre_of,
               !.mul_another = @ + st.pre_of_another]

\* of_another allocated, range checked and added with shifts[128]; its
\* limb is computed and not allocated; s3 = [cs, lc, mul_term, mul_another, ok]
more_close_another(s3) ==
    LET of_another == column_of(s3.mul_another)
        fe_of_another == some_biguint_to_fe(of_another)
        c1 == cs_alloc(s3.cs, fe_of_another)
        allocated_of_another == NumVariable(fe_of_another, last_var(c1))
    IN [cs |-> cs_range_check(c1, allocated_of_another.var, fe_of_another, OverflowBits),
        lc |-> Append(s3.lc, num_term(allocated_of_another, two_words_shift)),
        mul_term |-> s3.mul_term, of_another |-> of_another,
        allocated_of_another |-> allocated_of_another, ok |-> s3.ok]

\* pre_of = of; input_carry = allocated_of, and the same for the other
\* chain: the state the next column starts from, cl the closed column
more_column_next(s4, cl) ==
    [cs |-> cl.cs, pre_of |-> cl.of, input_carry |-> cl.allocated_of,
     pre_of_another |-> s4.of_another,
     input_carry_another |-> s4.allocated_of_another, ok |-> cl.ok]

\* the tail of the column as in simple_mul: of and the limb allocated and
\* range checked, the identity enforced
more_close(s4) == more_column_next(s4, column_close(s4))

\* one column of the fused chain
more_column(m, k, st) ==
    more_close(more_close_another(more_add_result(m, k, st,
        more_products(m, 2 * k + 1, 0, word_shift, words_shift_right, Pow2(WordBits),
            more_products(m, 2 * k, 0, 1, minus_one, 1, more_column_open(st))))))

RECURSIVE more_loop(_, _, _)
\* for k in 0..4
more_loop(m, k, st) ==
    IF ~st.ok \/ k >= NUM_LIMBS THEN st
    ELSE more_loop(m, k + 1, more_column(m, k, st))

\* both chains start without carry, on the constraint system of m
more_column_first(m) ==
    [cs |-> m.cs, pre_of |-> 0, input_carry |-> NumZero, pre_of_another |-> 0,
     input_carry_another |-> NumZero, ok |-> m.ok]

\* the fused chain on the locals m, then Ok(result)
more_chain(m) == mul_return(m, more_loop(m, 0, more_column_first(m)))

\* [ret, cs] of more_simple_mul(cs, a, b)
more_simple_mul(c0, a, b) ==
    more_chain(more_quotient(more_operands(
        read_operands(a, b, 1, [cs |-> c0, big_a |-> 0, big_b |-> 0, ok |-> TRUE]))))

----------------------------------------------------------------------------
(* add_range_check *)

\* F::CAPACITY: one bit less than the modulus has
FrCapacity == bits(FrModulus) - 1

\* RANGE_CHECK_THRESHOLD = 64
RANGE_CHECK_THRESHOLD == WordBits

RECURSIVE range_chunks(_, _, _, _)
\* for wit in witness_chunks: allocate the chunk; then for chunk in
\* chunks: lc += chunk * shifts[offset], offset += RANGE_CHECK_THRESHOLD;
\* st = [cs, lc]
range_chunks(witness_chunks, i, offset, st) ==
    IF i > Len(witness_chunks) THEN st
    ELSE range_chunks(witness_chunks, i + 1, offset + RANGE_CHECK_THRESHOLD,
             [cs |-> cs_alloc(st.cs, witness_chunks[i]),
              lc |-> Append(st.lc, Term(st.cs.nvars + 1, witness_chunks[i], shifts(offset)))])

\* the chunks allocated, then the one identity sum chunk * shift - x = 0
range_enforce(for_element, st) ==
    [ret |-> Ok(<<>>),
     cs |-> cs_enforce_zero(st.cs, Append(st.lc, num_term(for_element, minus_one)))]

\* [ret, cs] of add_range_check(cs, for_element, marker, width): both
\* assertions, the witness chunks from split_some_into_slices, which for a
\* present value is split_into_slices and fails as it does
add_range_check(c0, for_element, width) ==
    IF ~(width <= FrCapacity) \/ for_element.kind = "Constant" THEN [ret |-> Panic, cs |-> c0]
    ELSE IF split_into_slices(for_element.value, RANGE_CHECK_THRESHOLD, (width + RANGE_CHECK_THRESHOLD - 1) \div RANGE_CHECK_THRESHOLD).status # "ok" THEN [ret |-> Panic, cs |-> c0]
    ELSE range_enforce(for_element, range_chunks(split_into_slices(for_element.value, RANGE_CHECK_THRESHOLD, (width + RANGE_CHECK_THRESHOLD - 1) \div RANGE_CHECK_THRESHOLD).limbs, 1, 0, [cs |-> c0, lc |-> <<>>]))

----------------------------------------------------------------------------
(* Operands *)

\* which limbs the caller passes as Variable: all of them, or only limb 0
\* with constants above it (as the tests do); limbs beyond the pattern
\* follow its last entry
AllVariable == <<"Variable", "Variable", "Variable", "Variable">>

KindPatterns == { AllVariable, <<"Variable", "Constant", "Constant", "Constant">> }

RECURSIVE make_nums(_, _, _, _)
\* the caller's Num::alloc / Num::Constant of each limb; the variables are
\* numbered from `base`
make_nums(vals, kinds, i, base) ==
    IF i > Len(vals) THEN <<>>
    ELSE IF kinds[IF i <= Len(kinds) THEN i ELSE Len(kinds)] = "Variable"
         THEN <<NumVariable(vals[i], base + 1)>> \o make_nums(vals, kinds, i + 1, base + 1)
         ELSE <<NumConstant(vals[i])>> \o make_nums(vals, kinds, i + 1, base)

num_vars(nums) == Cardinality({i \in 1..Len(nums) : nums[i].kind = "Variable"})

RECURSIVE caller_cs(_, _, _)
\* the constraint system as the caller hands it over: its own allocations
caller_cs(nums, i, c) ==
    IF i > Len(nums) THEN c
    ELSE caller_cs(nums, i + 1,
             IF nums[i].kind = "Variable" THEN cs_alloc(c, nums[i].value) ELSE c)

values(nums) == [i \in 1..Len(nums) |-> nums[i].value]

Operands4 == [1..NUM_LIMBS -> LimbValues]

Operands4B == [1..NUM_LIMBS -> LimbValuesB]

\* dividends: every word empty or full
Operands8 == [1..NUM_LIMBS_DIV -> {0, Pow2(WordBits) - 1}]

----------------------------------------------------------------------------
(* The state machine: one gadget call on a fresh constraint system *)

\* no Limb constructed yet
NoLimb == [value |-> 0, max_value |-> 0, live |-> FALSE]

Init ==
    /\ op = "idle"
    /\ args = <<>>
    /\ ret = [status |-> "none", limbs |-> <<>>]
    /\ cs = EmptyCS
    /\ limb = NoLimb

\* the caller allocates the operands (Num::alloc, Num::Constant)
Prepare(A, B, K) ==
    /\ op = "idle"
    /\ \E va \in A, vb \in B, k \in K :
          \E a \in {make_nums(va, k, 1, 0)} :
          \E b \in {make_nums(vb, k, 1, num_vars(a))} :
             /\ op' = "ready"
             /\ args' = <<a, b>>
             /\ cs' = caller_cs(b, 1, caller_cs(a, 1, EmptyCS))
    /\ UNCHANGED <<ret, limb>>

\* a gadget returns r: its result and the constraint system it leaves
Return(name, r) ==
    /\ op' = name
    /\ ret' = r.ret
    /\ cs' = r.cs
    /\ UNCHANGED <<args, limb>>

PrepareAdd == Prepare(Operands4, Operands4B, KindPatterns)
SimpleAdd ==
    /\ op = "ready"
    /\ Len(args[1]) = NUM_LIMBS
    /\ \E r \in {simple_add(cs, args[1], args[2])} : Return("simple_add", r)

PrepareSub == Prepare(Operands4, Operands4B, KindPatterns)
SimpleSub ==
    /\ op = "ready"
    /\ Len(args[1]) = NUM_LIMBS
    /\ \E r \in {simple_sub(cs, args[1], args[2])} : Return("simple_sub", r)

PrepareMul == Prepare(Operands4B, Operands4B, KindPatterns)
SimpleMul ==
    /\ op = "ready"
    /\ Len(args[1]) = NUM_LIMBS
    /\ \E r \in {simple_mul(cs, args[1], args[2])} : Return("simple_mul", r)

PrepareDiv == Prepare(Operands8, Operands4B, {AllVariable})
SimpleDiv ==
    /\ op = "ready"
    /\ Len(args[1]) = NUM_LIMBS_DIV
    /\ \E r \in {simple_div(cs, args[1], args[2])} : Return("simple_div", r)

----------------------------------------------------------------------------
(* The gadgets on field-element operands, as the tests call them *)

\* largest field element enumerated from 0 on
MaxFe == 46

\* the field elements x and y are drawn from: a run from 0, the powers of
\* the word, the last element
FeValues ==
    {v \in (0..MaxFe) \cup {Pow2(2 * WordBits), Pow2(3 * WordBits), FrModulus - 1} :
        v < FrModulus}

\* [Num::alloc(x), Num::default(), ...]: x in limb 0, constant zero above
FeOperand(x, n) == [i \in 1..n |-> IF i = 1 THEN x ELSE 0]

TestKinds == <<"Variable", "Constant">>

\* let a = Num::alloc(a_f); let b = Num::alloc(b_f) around three zero limbs
PrepareFe ==
    /\ op = "idle"
    /\ \E x \in FeValues, y \in FeValues :
          \E a \in {make_nums(FeOperand(x, NUM_LIMBS), TestKinds, 1, 0)} :
          \E b \in {make_nums(FeOperand(y, NUM_LIMBS), TestKinds, 1, num_vars(a))} :
             /\ op' = "ready"
             /\ args' = <<a, b>>
             /\ cs' = caller_cs(b, 1, caller_cs(a, 1, EmptyCS))
    /\ UNCHANGED <<ret, limb>>

\* the same with the 8 limbs of a dividend
PrepareFeDiv ==
    /\ op = "idle"
    /\ \E x \in FeValues, y \in FeValues :
          \E a \in {make_nums(FeOperand(x, NUM_LIMBS_DIV), TestKinds, 1, 0)} :
          \E b \in {make_nums(FeOperand(y, NUM_LIMBS), TestKinds, 1, num_vars(a))} :
             /\ op' = "ready"
             /\ args' = <<a, b>>
             /\ cs' = caller_cs(b, 1, caller_cs(a, 1, EmptyCS))
    /\ UNCHANGED <<ret, limb>>

NextFe ==
    \/ PrepareFe
    \/ PrepareFeDiv
    \/ SimpleAdd
    \/ SimpleSub
    \/ SimpleMul
    \/ SimpleDiv

SpecFe == Init /\ [][NextFe]_vars

----------------------------------------------------------------------------
(* The splitting functions, called on their own *)

\* largest value split
MaxSplitValue == 40

\* largest limb width
MaxSplitWidth == 3

\* largest limb count
MaxSplitCount == 3

SplitFixedWidth ==
    /\ op = "idle"
    /\ \E v \in 0..MaxSplitValue, w \in 1..MaxSplitWidth :
          /\ op' = "split_into_fixed_width_limbs"
          /\ args' = <<v, w>>
          /\ ret' = Ok(split_into_fixed_width_limbs(v, w))
    /\ UNCHANGED <<cs, limb>>

SplitSomeFixedNumber ==
    /\ op = "idle"
    /\ \E v \in {None} \cup 0..MaxSplitValue, w \in 1..MaxSplitWidth, n \in 1..MaxSplitCount :
          /\ op' = "split_some_into_fixed_number_of_limbs"
          /\ args' = <<v, w, n>>
          /\ ret' = split_some_into_fixed_number_of_limbs(v, w, n)
    /\ UNCHANGED <<cs, limb>>

SplitFixedNumber ==
    /\ op = "idle"
    /\ \E v \in 0..MaxSplitValue, w \in 1..MaxSplitWidth, n \in 1..MaxSplitCount :
          /\ op' = "split_into_fixed_number_of_limbs"
          /\ args' = <<v, w, n>>
          /\ ret' = split_into_fixed_number_of_limbs(v, w, n)
    /\ UNCHANGED <<cs, limb>>

\* the width sequences: up to MaxSplitCount widths of up to MaxSplitWidth bits
SplitWidths == UNION {[1..n -> 1..MaxSplitWidth] : n \in 0..MaxSplitCount}

SplitSomeVariableWidth ==
    /\ op = "idle"
    /\ \E v \in {None} \cup 0..MaxSplitValue, widths \in SplitWidths :
          /\ op' = "split_some_into_limbs_of_variable_width"
          /\ args' = <<v, widths>>
          /\ ret' = split_some_into_limbs_of_variable_width(v, widths)
    /\ UNCHANGED <<cs, limb>>

\* largest slice width and slice count asked of split_into_slices
MaxSliceWidth == 4
MaxSlices == 5

SplitIntoSlices ==
    /\ op = "idle"
    /\ \E el \in 0..(FrModulus - 1), w \in 1..MaxSliceWidth, n \in 0..MaxSlices :
          /\ op' = "split_into_slices"
          /\ args' = <<el, w, n>>
          /\ ret' = split_into_slices(el, w, n)
    /\ UNCHANGED <<cs, limb>>

\* largest max_width asked of slice_into_limbs_of_max_size
MaxMaxWidth == 7

SliceIntoLimbs ==
    /\ op = "idle"
    /\ \E v \in {None} \cup 0..MaxSplitValue, mw \in 0..MaxMaxWidth, w \in 1..MaxSplitWidth :
          /\ op' = "slice_into_limbs_of_max_size"
          /\ args' = <<v, mw, w>>
          /\ ret' = [status |-> "ok",
                     limbs |-> slice_into_limbs_of_max_size(v, mw, w).limb_values,
                     sizes |-> slice_into_limbs_of_max_size(v, mw, w).limb_sizes]
    /\ UNCHANGED <<cs, limb>>

NextSlices == SplitIntoSlices \/ SliceIntoLimbs

SpecSlices == Init /\ [][NextSlices]_vars

NextSplit ==
    \/ SplitFixedWidth
    \/ SplitSomeFixedNumber
    \/ SplitFixedNumber
    \/ SplitSomeVariableWidth

SpecSplit == Init /\ [][NextSplit]_vars

----------------------------------------------------------------------------
(* A Limb and the operations that mutate it *)

\* largest constant a Limb is made of
MaxLimbConst == 4

\* max_value is followed up to this bound
MaxLimbBound == 60

\* the field elements and integers the operations are called with
LimbFactors == {0, 1, 2, FrModulus - 1}

\* Limb::new_constant
new_constant(value) ==
    [value |-> biguint_to_fe(value), max_value |-> value, live |-> TRUE]

\* Limb::inc_max
inc_max(l, by) == [l EXCEPT !.max_value = @ + by]

\* Limb::scale_max
scale_max(l, by) == [l EXCEPT !.max_value = @ * by]

\* Limb::scale: the term is scaled, in the field
scale(l, by) == [l EXCEPT !.value = (@ * by) % FrModulus]

\* Limb::negate: the term is negated, in the field
negate(l) == [l EXCEPT !.value = fe_negate(@)]

\* Limb::add_constant: the constant is added to the term, in the field
add_constant(l, c) == [l EXCEPT !.value = (@ + c) % FrModulus]

\* Limb::get_value
get_value(l) == fe_to_biguint(l.value)

LimbOp(name, l) ==
    /\ l.max_value <= MaxLimbBound
    /\ op' = name
    /\ limb' = l
    /\ UNCHANGED <<args, ret, cs>>

LimbNewConstant ==
    /\ ~limb.live
    /\ \E v \in 0..MaxLimbConst : LimbOp("new_constant", new_constant(v))

LimbIncMax ==
    /\ limb.live
    /\ \E by \in 0..2 : LimbOp("inc_max", inc_max(limb, by))

LimbScaleMax ==
    /\ limb.live
    /\ \E by \in 1..2 : LimbOp("scale_max", scale_max(limb, by))

LimbScale ==
    /\ limb.live
    /\ \E by \in LimbFactors : LimbOp("scale", scale(limb, by))

LimbNegate ==
    /\ limb.live
    /\ LimbOp("negate", negate(limb))

LimbAddConstant ==
    /\ limb.live
    /\ \E c \in LimbFactors : LimbOp("add_constant", add_constant(limb, c))

NextLimb ==
    \/ LimbNewConstant
    \/ LimbIncMax
    \/ LimbScaleMax
    \/ LimbScale
    \/ LimbNegate
    \/ LimbAddConstant

SpecLimb == Init /\ [][NextLimb]_vars

\* the caller allocates x, or passes a constant, and asks for a width
PrepareRange ==
    /\ op = "idle"
    /\ \E v \in 0..(FrModulus - 1), width \in 0..(FrCapacity + 1), kind \in {"Variable", "Constant"} :
          /\ op' = "ready"
          /\ args' = <<IF kind = "Variable" THEN NumVariable(v, 1) ELSE NumConstant(v), width>>
          /\ cs' = IF kind = "Variable" THEN cs_alloc(EmptyCS, v) ELSE EmptyCS
    /\ UNCHANGED <<ret, limb>>

AddRangeCheck ==
    /\ op = "ready"
    /\ Len(args) = 2
    /\ args[2] \in 0..(FrCapacity + 1)
    /\ \E r \in {add_range_check(cs, args[1], args[2])} : Return("add_range_check", r)

NextRange == PrepareRange \/ AddRangeCheck

SpecRange == Init /\ [][NextRange]_vars

\* the four gadgets, each on operands of either pattern
NextAll ==
    \/ PrepareMul
    \/ PrepareDiv
    \/ SimpleAdd
    \/ SimpleSub
    \/ SimpleMul
    \/ SimpleDiv

SpecAll == Init /\ [][NextAll]_vars

NextAdd == PrepareAdd \/ SimpleAdd

SpecAdd == Init /\ [][NextAdd]_vars

NextSub == PrepareSub \/ SimpleSub

SpecSub == Init /\ [][NextSub]_vars

NextMul == PrepareMul \/ SimpleMul

SpecMul == Init /\ [][NextMul]_vars

NextDiv == PrepareDiv \/ SimpleDiv

SpecDiv == Init /\ [][NextDiv]_vars

MoreSimpleMul ==
    /\ op = "ready"
    /\ Len(args[1]) = NUM_LIMBS
    /\ \E r \in {more_simple_mul(cs, args[1], args[2])} : Return("more_simple_mul", r)

NextMore == PrepareMul \/ MoreSimpleMul

SpecMore == Init /\ [][NextMore]_vars

----------------------------------------------------------------------------
(* What a call was given and what it returned *)

\* the operands as integers: sum of limb * 2^(64 * i)
a_int == recompose(values(args[1]), WordBits)
b_int == recompose(values(args[2]), WordBits)

\* the returned limbs as an integer, with words of `width` bits
ret_int(width) == recompose(values(ret.limbs), width)

\* the 2^256 of a 4-word operand
OperandRange == Pow2(WordBits * NUM_LIMBS)

range_checks_pass ==
    \A i \in 1..Len(cs.log) :
        cs.log[i].ev = "range_check" => cs.log[i].val < Pow2(cs.log[i].width)

----------------------------------------------------------------------------
(* simple_add *)

\* C1: when a + b < 2^256 the four limbs simple_add returns recompose,
\* with weights 2^(64*i), to a + b.
C1_AddNoOverflow ==
    (op = "simple_add" /\ a_int + b_int < OperandRange)
        => /\ ret.status = "ok"
           /\ Len(ret.limbs) = NUM_LIMBS
           /\ ret_int(WordBits) = a_int + b_int

\* a sum without overflow in which a carry crossed from limb 0 to limb 1
C1_Witness ==
    /\ op = "simple_add"
    /\ a_int + b_int < OperandRange
    /\ args[1][1].value + args[2][1].value >= Pow2(WordBits)
    /\ ret.status = "ok"
    /\ ret_int(WordBits) = a_int + b_int

\* C2: when a + b >= 2^256 the four limbs recompose to (a + b) mod 2^256,
\* each limb is below 2^64 and every range check passes.
C2_AddOverflow ==
    (op = "simple_add" /\ a_int + b_int >= OperandRange)
        => /\ ret.status = "ok"
           /\ ret_int(WordBits) = (a_int + b_int) % OperandRange
           /\ \A i \in 1..Len(ret.limbs) : ret.limbs[i].value < Pow2(WordBits)
           /\ range_checks_pass

----------------------------------------------------------------------------
(* simple_sub *)

\* C3: when a >= b simple_sub completes and its four limbs recompose to
\* a - b.
C3_SubNonNegative ==
    (op = "simple_sub" /\ a_int >= b_int)
        => /\ ret.status = "ok"
           /\ ret_int(WordBits) = a_int - b_int

\* C4: when a < b simple_sub surfaces an error: it does not return Ok.
C4_SubNegativeFails ==
    (op = "simple_sub" /\ a_int < b_int) => ret.status # "ok"

----------------------------------------------------------------------------
(* simple_mul *)

\* C5: for all a, b below 2^256 simple_mul completes and returns exactly
\* two limbs, each below 2^128, with r_0 + r_1 * 2^128 = (a * b) mod p.
C5_MulReduces ==
    op = "simple_mul"
        => /\ ret.status = "ok"
           /\ Len(ret.limbs) = 2
           /\ \A i \in 1..Len(ret.limbs) : ret.limbs[i].value < Pow2(2 * WordBits)
           /\ ret_int(2 * WordBits) = (a_int * b_int) % field_modulus

----------------------------------------------------------------------------
(* simple_div *)

\* C6: for every 8-limb dividend a and nonzero 4-limb divisor b simple_div
\* returns 8 quotient limbs whose recomposition q satisfies
\* q * b + (a mod b) = a, with a mod b < b.
C6_DivQuotient ==
    (op = "simple_div" /\ b_int # 0)
        => /\ ret.status = "ok"
           /\ Len(ret.limbs) = NUM_LIMBS_DIV
           /\ ret_int(WordBits) * b_int + (a_int % b_int) = a_int
           /\ (a_int % b_int) < b_int

\* a division with a quotient of several limbs and a nonzero remainder
C6_Witness ==
    /\ op = "simple_div"
    /\ b_int > 1
    /\ ret.status = "ok"
    /\ ret_int(WordBits) >= Pow2(WordBits)
    /\ a_int % b_int # 0
    /\ ret_int(WordBits) * b_int + (a_int % b_int) = a_int

\* C7: with a divisor whose limbs are all zero simple_div fails for every
\* dividend: it never returns Ok.
C7_DivByZeroFails ==
    (op = "simple_div" /\ \A i \in 1..NUM_LIMBS : args[2][i].value = 0)
        => ret.status # "ok"

\* a call with the zero divisor and a nonzero dividend, which panicked
C7_Witness ==
    /\ op = "simple_div"
    /\ \A i \in 1..NUM_LIMBS : args[2][i].value = 0
    /\ a_int > 0
    /\ ret.status = "panic"

----------------------------------------------------------------------------
(* Splitting *)

\* C8 as stated: split_into_fixed_width_limbs(v, w) returns its limbs
\* least significant first: recomposed with the limb at index i weighted
\* 2^(w*i) they give back v.
C8_SplitLsbFirst ==
    op = "split_into_fixed_width_limbs"
        => recompose(ret.limbs, args[2]) = args[1]

\* C8 amended: the limbs are returned most significant first: recomposed
\* with the limb at index i weighted 2^(w*(n-1-i)), n the number of limbs,
\* they give back v.
C8_SplitMsbFirst ==
    op = "split_into_fixed_width_limbs"
        => /\ ret.status = "ok"
           /\ recompose(Reverse(ret.limbs), args[2]) = args[1]

\* a value of several limbs that reads differently in the two orders
C8_Witness ==
    /\ op = "split_into_fixed_width_limbs"
    /\ Len(ret.limbs) >= 2
    /\ recompose(ret.limbs, args[2]) # args[1]
    /\ recompose(Reverse(ret.limbs), args[2]) = args[1]

\* C9: both fixed-count forms fail by assertion when bit_length(v) >
\* width * count, and when v fits return exactly count limbs, each below
\* 2^width, that recompose to v.
C9_FixedCountRejectsOversize ==
    (op \in {"split_some_into_fixed_number_of_limbs", "split_into_fixed_number_of_limbs"}
     /\ args[1] # None)
        => IF bits(args[1]) > args[2] * args[3]
           THEN ret.status = "panic"
           ELSE /\ ret.status = "ok"
                /\ Len(ret.limbs) = args[3]
                /\ \A i \in 1..Len(ret.limbs) : ret.limbs[i] < Pow2(args[2])
                /\ recompose(ret.limbs, args[2]) = args[1]

----------------------------------------------------------------------------
(* Limb *)

\* C10: after any sequence of new_constant, scale, negate, add_constant,
\* inc_max and scale_max the value of the limb never exceeds its max_value.
C10_LimbBound ==
    limb.live => get_value(limb) <= limb.max_value

----------------------------------------------------------------------------
(* Error handling and the calls of the tests *)

\* the four gadgets
Gadgets == {"simple_add", "simple_sub", "simple_mul", "simple_div"}

\* some input limb is a Variable whose witness does not fit a word
oversize_input ==
    \E k \in 1..2 : \E i \in 1..Len(args[k]) :
        args[k][i].kind = "Variable" /\ args[k][i].value >= Pow2(WordBits)

\* C11: when an input limb of a gadget is a Variable whose witness value is
\* 2^64 or more, gadget construction fails: the gadget does not return Ok
\* with output limbs.
C11_MagnitudeFatal ==
    (op \in Gadgets /\ oversize_input) => ret.status # "ok"

\* the number of limbs each gadget returns
result_limbs(name) ==
    IF name = "simple_mul" THEN 2
    ELSE IF name = "simple_div" THEN NUM_LIMBS_DIV
    ELSE NUM_LIMBS

\* C13: called as the tests call them, with a field element x as a
\* Variable in limb 0 of the first operand, a field element y (nonzero for
\* the division) in limb 0 of the second and constant zero above, every
\* gadget returns Ok, with 4 limbs for add and sub, 2 for mul, 8 for div.
C13_TestsComplete ==
    (op \in Gadgets /\ (op = "simple_div" => args[2][1].value # 0))
        => ret.status = "ok" /\ Len(ret.limbs) = result_limbs(op)

\* every limb of both operands is 2^64 - 1
all_limbs_max ==
    \A k \in 1..2 : \A i \in 1..Len(args[k]) : args[k][i].value = Pow2(WordBits) - 1

\* every carry or borrow allocated is one bit, every column overflow is
\* within the width it is range checked to
carries_in_range ==
    \A i \in 1..Len(cs.log) :
        /\ cs.log[i].ev = "alloc_bit" => cs.log[i].val \in {0, 1}
        /\ (cs.log[i].ev = "range_check" /\ cs.log[i].width = OverflowBits)
               => cs.log[i].val < Pow2(OverflowBits)

\* C12: when every limb of every operand is 2^64 - 1 each gadget completes
\* without assertion failure or panic, and every carry, borrow and column
\* overflow it allocates is below 2^(its range-check width).
C12_Boundary ==
    (op \in Gadgets /\ all_limbs_max) => ret.status = "ok" /\ carries_in_range

----------------------------------------------------------------------------
(* Splitting without a witness *)

\* every limb returned is absent / every limb returned is present
all_absent == \A i \in 1..Len(ret.limbs) : ret.limbs[i] = None
all_present == \A i \in 1..Len(ret.limbs) : ret.limbs[i] # None

\* the number of limbs asked for, and the bits they hold together
asked_limbs ==
    IF op = "split_some_into_fixed_number_of_limbs" THEN args[3] ELSE Len(args[2])
asked_bits ==
    IF op = "split_some_into_fixed_number_of_limbs" THEN args[2] * args[3]
    ELSE sum_widths(args[2])

\* C14: split_some_into_fixed_number_of_limbs(None, w, n) returns n absent
\* limbs and split_some_into_limbs_of_variable_width(None, widths) returns
\* len(widths) absent limbs, without failing; for a present value that fits
\* the result has the same length and every limb is present.
C14_AbsentKeepsShape ==
    op \in {"split_some_into_fixed_number_of_limbs",
            "split_some_into_limbs_of_variable_width"}
        => /\ args[1] = None
                => ret.status = "ok" /\ Len(ret.limbs) = asked_limbs /\ all_absent
           /\ (args[1] # None /\ bits(args[1]) <= asked_bits)
                => ret.status = "ok" /\ Len(ret.limbs) = asked_limbs /\ all_present

\* an absent value split into three limbs of different widths
C14_Witness ==
    /\ op = "split_some_into_limbs_of_variable_width"
    /\ args[1] = None
    /\ Len(args[2]) = 3
    /\ args[2][1] # args[2][2]
    /\ ret.status = "ok"
    /\ Len(ret.limbs) = 3
    /\ all_absent

----------------------------------------------------------------------------
(* The witness of the carry chain of simple_add, read off the log *)

\* the events of one kind, in the order they were emitted
events(kind) == SelectSeq(cs.log, LAMBDA e : e.ev = kind)

\* word i (from 1) of an operand: what the split at the head of the gadget
\* gives the loop
operand_limb(x, i) == (x \div Pow2(WordBits * (i - 1))) % Pow2(WordBits)

\* the carry (borrow) bit allocated for limb i, 0 before the first limb
carry_bit(i) == IF i = 0 THEN 0 ELSE events("alloc_bit")[i].val

\* the terms of the linear constraint of limb i: a, b, carry-in, out,
\* carry-out
limb_terms(i) == events("enforce_zero")[i].terms

\* the witness of the output limb allocated and range checked for limb i
out_limb(i) == limb_terms(i)[4].val

\* the gadget went through its four limbs
chain_done(name) ==
    /\ op = name
    /\ Len(events("alloc_bit")) = NUM_LIMBS
    /\ Len(events("enforce_zero")) = NUM_LIMBS

\* C15: for every limb i of simple_add the carry-out allocated equals
\* ((a_i mod 2^64) + (b_i mod 2^64) + c_{i-1}) >> 64 with c_{-1} = 0: the
\* carry-in is included when deciding the carry-out.
C15_CarryOutIncludesCarryIn ==
    chain_done("simple_add")
        => \A i \in 1..NUM_LIMBS :
               carry_bit(i) = (operand_limb(a_int, i) + operand_limb(b_int, i)
                               + carry_bit(i - 1)) \div Pow2(WordBits)

\* C16: for all operands, whether or not a + b overflows, every output
\* limb witness of simple_add satisfies 0 <= out_i < 2^64.
C16_AddOutputLimbRange ==
    chain_done("simple_add")
        => \A i \in 1..NUM_LIMBS : 0 <= out_limb(i) /\ out_limb(i) < Pow2(WordBits)

\* the weighted sum of the terms of a linear constraint, in the field
RECURSIVE lc_value(_)
lc_value(terms) ==
    IF Len(terms) = 0 THEN 0
    ELSE (Head(terms).val * Head(terms).coeff + lc_value(Tail(terms))) % FrModulus

\* C17: for every limb i the witness values simple_add assigns satisfy
\* a_i + b_i + c_{i-1} - out_i - c_i * 2^64 = 0 as integers, and so the
\* linear constraint of the limb evaluates to zero in the native field.
C17_AddLimbIdentity ==
    chain_done("simple_add")
        => \A i \in 1..NUM_LIMBS :
               /\ operand_limb(a_int, i) + operand_limb(b_int, i) + carry_bit(i - 1)
                    - out_limb(i) - carry_bit(i) * Pow2(WordBits) = 0
               /\ lc_value(limb_terms(i)) = 0

\* a limb that takes a carry in and gives a carry out
C17_Witness ==
    /\ chain_done("simple_add")
    /\ carry_bit(1) = 1
    /\ carry_bit(2) = 1
    /\ operand_limb(a_int, 2) + operand_limb(b_int, 2) + 1 - out_limb(2) - Pow2(WordBits) = 0
    /\ lc_value(limb_terms(2)) = 0

\* the variables a linear constraint refers to
term_vars(terms) == {terms[j].var : j \in 1..Len(terms)}

\* C18: for every limb i the linear constraint emitted for limb i refers to
\* the caller's own input variables a[i] and b[i] (when they are Variables)
\* and to the output variable returned as result[i], in simple_add and in
\* simple_sub.
C18_ConstraintsTieInputsToOutputs ==
    ((chain_done("simple_add") \/ chain_done("simple_sub")) /\ ret.status = "ok")
        => \A i \in 1..NUM_LIMBS :
               /\ args[1][i].kind = "Variable" => args[1][i].var \in term_vars(limb_terms(i))
               /\ args[2][i].kind = "Variable" => args[2][i].var \in term_vars(limb_terms(i))
               /\ ret.limbs[i].var \in term_vars(limb_terms(i))

----------------------------------------------------------------------------
(* The witness of the borrow chain of simple_sub *)

\* the borrow rule at limb i on the integers a_i, b_i and the borrow in
borrow_rule(i) ==
    IF operand_limb(a_int, i) - carry_bit(i - 1) < operand_limb(b_int, i)
    THEN /\ carry_bit(i) = 1
         /\ out_limb(i) = operand_limb(a_int, i) + Pow2(WordBits)
                          - operand_limb(b_int, i) - carry_bit(i - 1)
    ELSE /\ carry_bit(i) = 0
         /\ out_limb(i) = operand_limb(a_int, i) - operand_limb(b_int, i)
                          - carry_bit(i - 1)

\* a_i - b_i - borrow_{i-1} - out_i + borrow_i * 2^64 = 0
borrow_identity(i) ==
    operand_limb(a_int, i) - operand_limb(b_int, i) - carry_bit(i - 1)
        - out_limb(i) + carry_bit(i) * Pow2(WordBits) = 0

\* C19: for every limb i of simple_sub, if a_i - borrow_{i-1} < b_i as
\* integers then borrow_i = 1 and out_i = a_i + 2^64 - b_i - borrow_{i-1},
\* otherwise borrow_i = 0 and out_i = a_i - b_i - borrow_{i-1}; in both
\* cases the step completes with 0 <= out_i < 2^64 and the identity holds.
C19_SubBorrowRule ==
    op = "simple_sub"
        => /\ chain_done("simple_sub")
           /\ \A i \in 1..NUM_LIMBS :
                  /\ borrow_rule(i)
                  /\ 0 <= out_limb(i) /\ out_limb(i) < Pow2(WordBits)
                  /\ borrow_identity(i)

----------------------------------------------------------------------------
(* The witness of the product chain of simple_mul *)

\* the range checks of one width, in the order they were emitted
range_checks(width) ==
    SelectSeq(cs.log, LAMBDA e : e.ev = "range_check" /\ e.width = width)

\* the overflow term and the output limb allocated for column k (from 0)
\* of the product chain, which comes first in the log
product_of(k) == range_checks(OverflowBits)[k + 1].val
product_limb(k) == range_checks(2 * WordBits)[k + 1].val

RECURSIVE limb_products(_, _, _)
\* sum of a_i * b_j over i + j = sum, i from i0 up, limbs numbered from 0
limb_products(sum, i0, n) ==
    IF i0 > sum THEN 0
    ELSE (IF i0 < n /\ sum - i0 < n
          THEN operand_limb(a_int, i0 + 1) * operand_limb(b_int, sum - i0 + 1)
          ELSE 0)
         + limb_products(sum, i0 + 1, n)

RECURSIVE column_total(_)
\* T_k: the products of weight 1 and of weight 2^64 of column k and the
\* overflow of the column before
column_total(k) ==
    limb_products(2 * k, 0, NUM_LIMBS)
    + Pow2(WordBits) * limb_products(2 * k + 1, 0, NUM_LIMBS)
    + (IF k = 0 THEN 0 ELSE column_total(k - 1) \div Pow2(2 * WordBits))

\* C20: for every column k in 0..4 of the product chain of simple_mul the
\* allocated output limb is c_k = T_k mod 2^128, below 2^128 as its range
\* check asks, and the allocated overflow term is of_k = floor(T_k / 2^128).
C20_MulColumnWitness ==
    op = "simple_mul"
        => \A k \in 0..(NUM_LIMBS - 1) :
               /\ product_limb(k) = column_total(k) % Pow2(2 * WordBits)
               /\ product_limb(k) < Pow2(2 * WordBits)
               /\ product_of(k) = column_total(k) \div Pow2(2 * WordBits)

----------------------------------------------------------------------------
(* The linear identities of the product chain of simple_mul *)

\* the terms of the identity of column k (from 0) of the product chain,
\* whose identities come first in the log
product_terms(k) == events("enforce_zero")[k + 1].terms

\* how many limb products a_i * b_j have i + j = sum
num_products(sum) == Cardinality({i \in 0..(NUM_LIMBS - 1) : sum - i \in 0..(NUM_LIMBS - 1)})

\* the coefficient of the t-th term of column k, counted from the last
\* term backwards (0 the last)
coeff_from_end(k, t) == product_terms(k)[Len(product_terms(k)) - t].coeff

\* the coefficients of column k up to the limb products: 1 on the input
\* overflow, 1 on the products with i + j = 2k, 2^64 on those with
\* i + j = 2k + 1
product_coeffs_ok(k) ==
    /\ Len(product_terms(k)) = 3 + num_products(2 * k) + num_products(2 * k + 1)
    /\ product_terms(k)[1].coeff = 1
    /\ \A t \in 2..(1 + num_products(2 * k)) : product_terms(k)[t].coeff = 1
    /\ \A t \in (2 + num_products(2 * k))..(1 + num_products(2 * k) + num_products(2 * k + 1)) :
           product_terms(k)[t].coeff = shifts(WordBits)

\* C21: for every column k the identity of the product chain carries
\* coefficient 1 on the input overflow, 1 on every limb product with
\* i + j = 2k, 2^64 on every limb product with i + j = 2k + 1, -1 on the
\* output limb c_k and -2^128 on the output overflow of_k.
C21_MulColumnCoefficients ==
    op = "simple_mul"
        => \A k \in 0..(NUM_LIMBS - 1) :
               /\ product_coeffs_ok(k)
               /\ coeff_from_end(k, 0) = minus_one
               /\ coeff_from_end(k, 1) = fe_negate(shifts(2 * WordBits))

----------------------------------------------------------------------------
(* The reduction chain of simple_mul against its product chain *)

\* the output limb and the overflow allocated for column k (from 0) of the
\* reduction chain: in the log they follow the 4 columns of the product
\* chain and, for the limbs, the 2 limbs of the result
reduce_limb(k) == range_checks(2 * WordBits)[NUM_LIMBS + 2 + k + 1].val
reduce_of(k) == range_checks(OverflowBits)[NUM_LIMBS + k + 1].val

\* C22: for all operands on which simple_mul completes and every column k,
\* the output limb of the reduction chain (q_i * p_j products plus the
\* remainder limb for k < 2) equals the product limb c_k of the same
\* column, and the overflow after the last column is zero.
C22_ReductionMatchesProduct ==
    (op = "simple_mul" /\ ret.status = "ok")
        => /\ \A k \in 0..(NUM_LIMBS - 1) : reduce_limb(k) = product_limb(k)
           /\ reduce_of(NUM_LIMBS - 1) = 0

----------------------------------------------------------------------------
(* more_simple_mul against simple_mul *)

\* the linear identities a constraint system holds, in order
identities(c) == SelectSeq(c.log, LAMBDA e : e.ev = "enforce_zero")

\* the witness satisfies every linear identity of c
identities_hold(c) ==
    \A i \in 1..Len(identities(c)) : lc_value(identities(c)[i].terms) = 0

\* simple_mul called on the operands of the state
simple_mul_here ==
    simple_mul(caller_cs(args[2], 1, caller_cs(args[1], 1, EmptyCS)), args[1], args[2])

\* C23: on every operand pair where simple_mul completes with a witness
\* that satisfies all its linear identities, more_simple_mul completes,
\* returns the same two remainder limb values, and its witness satisfies
\* every per-column linear identity it emits.
C23_FusedEquivalent ==
    (/\ op = "more_simple_mul"
     /\ simple_mul_here.ret.status = "ok"
     /\ identities_hold(simple_mul_here.cs))
    => /\ ret.status = "ok"
       /\ values(ret.limbs) = values(simple_mul_here.ret.limbs)
       /\ Len(identities(cs)) = NUM_LIMBS
       /\ identities_hold(cs)

----------------------------------------------------------------------------
(* the column limbs of simple_div *)

\* c_in_limbs at the end of the loop of simple_div called on the operands
\* of the state
div_c_in_limbs ==
    div_loop(div_witness(div_read(caller_cs(args[2], 1, caller_cs(args[1], 1, EmptyCS)), args[1], args[2])), 0, column_first(div_witness(div_read(caller_cs(args[2], 1, caller_cs(args[1], 1, EmptyCS)), args[1], args[2])))).c_in_limbs

\* C24: for every 8-limb dividend a and nonzero 4-limb divisor b the 8
\* column limbs c_0..c_7 of simple_div, built from the products
\* quotient_i * divisor_j with the remainder limbs folded in, recompose
\* with weights 2^(128k) to the dividend a.
C24_DivColumnsRecompose ==
    (op = "simple_div" /\ ret.status = "ok")
        => /\ Len(div_c_in_limbs) = NUM_LIMBS_DIV
           /\ recompose(div_c_in_limbs, 2 * WordBits) = a_int

----------------------------------------------------------------------------
(* the remainder limbs of simple_div *)

\* the variable allocated for remainder limb k: in the identity of
\* column k its term comes before those of the overflow and of the limb
remainder_var(k) ==
    identities(cs)[k + 1].terms[Len(identities(cs)[k + 1].terms) - 2].var

\* a range check of `width` bits is emitted on variable v
range_checked(v, width) ==
    \E i \in 1..Len(cs.log) :
        /\ cs.log[i].ev = "range_check"
        /\ cs.log[i].var = v
        /\ cs.log[i].width = width

\* C25: in every call of simple_div each of the 4 remainder limb
\* variables it allocates has a 64-bit range check emitted on it before
\* the call returns.
C25_DivRemainderRangeChecked ==
    (op = "simple_div" /\ ret.status = "ok")
        => \A k \in 0..(NUM_LIMBS - 1) : range_checked(remainder_var(k), WordBits)

----------------------------------------------------------------------------
(* split_some_into_limbs_of_variable_width on a present value *)

RECURSIVE recompose_widths(_, _)
\* sum of limbs[i] * 2^(widths[0] + ... + widths[i-1]), index 0 first
recompose_widths(limbs, widths) ==
    IF Len(limbs) = 0 THEN 0
    ELSE Head(limbs) + Pow2(Head(widths)) * recompose_widths(Tail(limbs), Tail(widths))

\* C27: for every integer v and width list with bit_length(v) <=
\* sum(widths), split_some_into_limbs_of_variable_width(Some(v), widths)
\* returns len(widths) limbs with limb_i < 2^widths[i] that recompose, limb
\* i weighted by 2^(widths[0] + ... + widths[i-1]), to v; when
\* bit_length(v) > sum(widths) it fails by assertion.
C27_VariableWidthSplit ==
    (op = "split_some_into_limbs_of_variable_width" /\ args[1] # None)
        => IF bits(args[1]) <= sum_widths(args[2])
           THEN /\ ret.status = "ok"
                /\ Len(ret.limbs) = Len(args[2])
                /\ \A i \in 1..Len(ret.limbs) :
                      ret.limbs[i] \in 0..(Pow2(args[2][i]) - 1)
                /\ recompose_widths(ret.limbs, args[2]) = args[1]
           ELSE ret.status = "panic"

\* a value split into three nonzero limbs of widths not all equal
C27_Witness ==
    /\ op = "split_some_into_limbs_of_variable_width"
    /\ args[1] # None
    /\ Len(args[2]) = 3
    /\ args[2][1] # args[2][2]
    /\ ret.status = "ok"
    /\ Len(ret.limbs) = 3
    /\ \A i \in 1..3 : ret.limbs[i] # None /\ ret.limbs[i] > 0
    /\ recompose_widths(ret.limbs, args[2]) = args[1]

\* a value too wide for the widths asked
C27_WitnessTooWide ==
    /\ op = "split_some_into_limbs_of_variable_width"
    /\ args[1] # None
    /\ bits(args[1]) > sum_widths(args[2])
    /\ ret.status = "panic"

----------------------------------------------------------------------------
(* split_into_slices and slice_into_limbs_of_max_size *)

\* C28: for every field element el, slice_width >= 1 and num_slices with
\* bit_length(el) <= slice_width * num_slices, split_into_slices returns
\* exactly num_slices slices, each below 2^slice_width, that recompose with
\* weights 2^(slice_width * i) to el, also when slice_width is above 64
\* and when num_slices is above the number of words of the representation.
C28_SlicesDecompose ==
    (op = "split_into_slices" /\ args[2] >= 1 /\ bits(args[1]) <= args[2] * args[3])
        => /\ ret.status = "ok"
           /\ Len(ret.limbs) = args[3]
           /\ \A i \in 1..Len(ret.limbs) : ret.limbs[i] < Pow2(args[2])
           /\ recompose(ret.limbs, args[2]) = args[1]

\* C29: for every max_width >= 0 and limb_width >= 1 the loop of
\* slice_into_limbs_of_max_size ends, the sizes it returns sum to
\* max_width, every size but the last is limb_width and the last is in
\* 0..limb_width, and the value list has as many entries as the size list,
\* all absent when the value is absent.
C29_SliceSizes ==
    op = "slice_into_limbs_of_max_size"
        => /\ ret.status = "ok"
           /\ Len(ret.sizes) >= 1
           /\ sum_widths(ret.sizes) = args[2]
           /\ \A i \in 1..(Len(ret.sizes) - 1) : ret.sizes[i] = args[3]
           /\ ret.sizes[Len(ret.sizes)] \in 0..args[3]
           /\ Len(ret.limbs) = Len(ret.sizes)
           /\ args[1] = None => \A i \in 1..Len(ret.limbs) : ret.limbs[i] = None
           /\ args[1] # None => \A i \in 1..Len(ret.limbs) : ret.limbs[i] # None

\* a present value sliced into two full limbs and a shorter last one
C29_Witness ==
    /\ op = "slice_into_limbs_of_max_size"
    /\ args[1] # None
    /\ args[3] > 1
    /\ Len(ret.sizes) = 3
    /\ ret.sizes[1] = args[3]
    /\ ret.sizes[3] \in 1..(args[3] - 1)
    /\ Len(ret.limbs) = 3
    /\ ret.limbs[3] > 0

----------------------------------------------------------------------------
(* add_range_check *)

\* the variables add_range_check allocated: those after the caller's one
range_vars == 2..cs.nvars

RECURSIVE lc_under(_, _)
\* a linear combination under an assignment asg of range_vars, the
\* caller's variable keeping its value
lc_under(terms, asg) ==
    IF Len(terms) = 0 THEN 0
    ELSE ((IF Head(terms).var \in DOMAIN asg THEN asg[Head(terms).var] ELSE Head(terms).val)
              * Head(terms).coeff + lc_under(Tail(terms), asg)) % FrModulus

\* C26: for every non-constant x and width up to the field capacity, every
\* assignment of the variables allocated by add_range_check(cs, x, marker,
\* width) that satisfies all the constraints it emits has the value of x
\* in [0, 2^width).
C26_RangeCheckSound ==
    (op = "add_range_check" /\ ret.status = "ok")
        => \A asg \in [range_vars -> 0..(FrModulus - 1)] :
              (\A i \in 1..Len(identities(cs)) : lc_under(identities(cs)[i].terms, asg) = 0)
                  => args[1].value < Pow2(args[2])

----------------------------------------------------------------------------
(* The operations a call emits, without the witness *)

\* Constant or Variable, limb by limb
kinds_of(nums) == [i \in 1..Len(nums) |-> nums[i].kind]

\* a term without its witness value; a constant keeps its value
term_shape(t) == [var |-> t.var, coeff |-> t.coeff, const |-> IF t.var = 0 THEN t.val ELSE 0]

\* an emitted operation without the witness values
event_shape(e) ==
    IF e.ev = "enforce_zero"
    THEN [ev |-> e.ev, terms |-> [j \in 1..Len(e.terms) |-> term_shape(e.terms[j])]]
    ELSE IF e.ev = "range_check" THEN [ev |-> e.ev, var |-> e.var, width |-> e.width]
    ELSE IF e.ev = "mul" THEN [ev |-> e.ev, var |-> e.var, x |-> e.x, y |-> e.y]
    ELSE [ev |-> e.ev, var |-> e.var]

shape_of(log) == [i \in 1..Len(log) |-> event_shape(log[i])]

\* the gadget of that name called on a and b
gadget_call(name, c0, a, b) ==
    IF name = "simple_add" THEN simple_add(c0, a, b)
    ELSE IF name = "simple_sub" THEN simple_sub(c0, a, b)
    ELSE IF name = "simple_mul" THEN simple_mul(c0, a, b)
    ELSE simple_div(c0, a, b)

\* the operands 1 and 1 with the kinds k
reference_a(name, k) ==
    make_nums(FeOperand(1, IF name = "simple_div" THEN NUM_LIMBS_DIV ELSE NUM_LIMBS), k, 1, 0)
reference_b(name, k) ==
    make_nums(FeOperand(1, NUM_LIMBS), k, 1, num_vars(reference_a(name, k)))

\* per gadget and pattern: the call on the reference operands
reference_calls ==
    [name \in Gadgets |-> [k \in KindPatterns |->
        gadget_call(name, caller_cs(reference_b(name, k), 1, caller_cs(reference_a(name, k), 1, EmptyCS)), reference_a(name, k), reference_b(name, k))]]

\* C30: two completed calls of the same gadget (simple_add, simple_sub,
\* simple_mul, simple_div) on operands with the same Constant/Variable
\* pattern per limb emit the same sequence of operations (allocations,
\* boolean allocations, range checks with widths, multiplications, linear
\* identities with coefficients), whatever the witness values: every
\* completed call emits what the call on the operands 1 and 1 of its
\* pattern emits.
C30_StructureWitnessIndependent ==
    (/\ op \in Gadgets
     /\ ret.status = "ok"
     /\ kinds_of(args[2]) \in KindPatterns
     /\ kinds_of(args[1]) = kinds_of(reference_a(op, kinds_of(args[2]))))
        => /\ reference_calls[op][kinds_of(args[2])].ret.status = "ok"
           /\ shape_of(cs.log) = shape_of(reference_calls[op][kinds_of(args[2])].cs.log)

\* a completed multiplication of operands other than 1 and 1, with
\* constant limbs, carrying a nonzero product
C30_Witness ==
    /\ op = "simple_mul"
    /\ ret.status = "ok"
    /\ kinds_of(args[2]) # AllVariable
    /\ a_int > Pow2(WordBits)
    /\ b_int > Pow2(WordBits)
    /\ a_int # b_int
    /\ shape_of(cs.log) = shape_of(reference_calls[op][kinds_of(args[2])].cs.log)

====
